---- MODULE Spec2Model ----
(***************************************************************************)
(* Contextual Bayesian optimization (bayesopt4ros), the state machine of   *)
(* ContextualBayesianOptimization: goal ingestion (_update_model), point   *)
(* proposal with the context dimensions fixed (_initialize_acqf,           *)
(* _optimize_acqf, _check_data_vicinity) and the posterior-mean query      *)
(* (get_optimal_parameters / _optimize_posterior_mean).                    *)
(*                                                                         *)
(* Tensors are sequences of grid values; a [2, d] bounds tensor is the     *)
(* pair <<lower row, upper row>>.  Python's None is the empty sequence for *)
(* tensor-valued fields (every real tensor here has length >= 1) and a     *)
(* record with exists = FALSE for the surrogate model.                     *)
(***************************************************************************)
EXTENDS Integers, Sequences, FiniteSets, TLC

\* ---- bounds of the model ------------------------------------------------
MaxInputDim == 2
MaxContextDim == 2
MaxNInit == 1
MaxHist == 2

\* ---- value domains --------------------------------------------------------
None == <<>>

\* representative tensors of length n inside the bounds box: the all-zero
\* tensor and the tensor whose last component is 1
Zero(n) == [i \in 1 .. n |-> 0]

Step(n) == [i \in 1 .. n |-> IF i = n THEN 1 ELSE 0]

Points(n) == {Zero(n), Step(n)}

\* an observed outcome: a finite value or a non-finite one (nan / inf)
Finite(v) == [finite |-> TRUE, v |-> v]

NonFinite == [finite |-> FALSE, v |-> 0]

Outcomes == {Finite(1), NonFinite}

\* raw values the inner optimizer can report
RawVals == {-1, 1}

VARIABLES
    input_dim, context_dim, bounds, context_bounds, joint_dim, joint_bounds,
    maximize, n_init,
    x_new, context, prev_context, history, gp,
    acq_func_ff, x_cand,
    result,
    pc, op, goal, err,
    x_new_context, proposed_under

config == <<input_dim, context_dim, bounds, context_bounds, joint_dim,
            joint_bounds, maximize, n_init>>

vars == <<input_dim, context_dim, bounds, context_bounds, joint_dim,
          joint_bounds, maximize, n_init,
          x_new, context, prev_context, history, gp,
          acq_func_ff, x_cand, result, pc, op, goal, err,
          x_new_context, proposed_under>>

\* ---- construction ---------------------------------------------------------
JointDim(d, c) == d + c

\* torch.cat(..., dim=1) of two [2, .] tensors: row-wise concatenation
JointBoundsContextFirst(b, cb) == <<cb[1] \o b[1], cb[2] \o b[2]>>

JointBounds(b, cb) == <<b[1] \o cb[1], b[2] \o cb[2]>>

\* a [2, d] bounds tensor: lower row all 0, upper row hi + 1, hi + 2, ...
BoundsTensor(d, hi) == <<[i \in 1 .. d |-> 0], [i \in 1 .. d |-> hi + i]>>

NoneGP == [exists |-> FALSE, train_X |-> <<>>, train_Y |-> <<>>, fitted |-> FALSE]

NoAcqf == [built |-> FALSE, d |-> 0, columns |-> <<>>, values |-> <<>>]

NoArg == [kind |-> "none", val |-> <<>>]

NoResult == [returned |-> FALSE, arg |-> NoArg, d |-> 0, columns |-> <<>>,
             values |-> <<>>, x_raw |-> <<>>, f_raw |-> 0,
             x_opt |-> <<>>, f_opt |-> 0]

NoGoal == [y_new |-> NonFinite, c_new |-> <<>>]

Init ==
    /\ input_dim \in 1 .. MaxInputDim
    /\ context_dim \in 1 .. MaxContextDim
    /\ bounds = BoundsTensor(input_dim, 0)
    /\ context_bounds = BoundsTensor(context_dim, 1)
    /\ maximize \in BOOLEAN
    /\ n_init \in 1 .. MaxNInit
    /\ joint_dim = JointDim(input_dim, context_dim)
    /\ joint_bounds = JointBounds(bounds, context_bounds)
    /\ x_new = None
    /\ context = None
    /\ prev_context = None
    /\ history = <<>>
    /\ gp = NoneGP
    /\ acq_func_ff = NoAcqf
    /\ x_cand = None
    /\ result = NoResult
    /\ pc = "idle"
    /\ op = "init"
    /\ goal = NoGoal
    /\ err = "none"
    /\ x_new_context = None
    /\ proposed_under = <<>>

\* ---- data handler ---------------------------------------------------------
add_xy(hist, x, y) == Append(hist, [x |-> x, y |-> y])

get_xy(hist) ==
    <<[i \in 1 .. Len(hist) |-> hist[i].x], [i \in 1 .. Len(hist) |-> hist[i].y]>>

\* ---- _update_model ----------------------------------------------------------
Goals == [y_new : Outcomes, c_new : Points(context_dim)]

FirstContact(xn, ctx) == xn = None /\ ctx = None

InitialContextDropped(ctx, g) == ctx

InitialContext(ctx, g) == g.c_new

AddObservationNewContext(hist, xn, ctx, g) == add_xy(hist, xn \o g.c_new, g.y_new)

AddObservationContextFirst(hist, xn, ctx, g) == add_xy(hist, ctx \o xn, g.y_new)

AddObservation(hist, xn, ctx, g) == add_xy(hist, xn \o ctx, g.y_new)

ShiftContextLate(ctx, g) == [prev |-> g.c_new, cur |-> g.c_new]

ShiftContext(ctx, g) == [prev |-> ctx, cur |-> g.c_new]

_initialize_model(x, y) ==
    [exists |-> TRUE, train_X |-> x, train_Y |-> y, fitted |-> FALSE]

_optimize_model(m) == [m EXCEPT !.fitted = TRUE]

RefitIncremental(old, xy) ==
    IF old.exists
    THEN old
    ELSE _optimize_model(_initialize_model(xy[1], xy[2]))

Refit(old, xy) == _optimize_model(_initialize_model(xy[1], xy[2]))

_update_model(g) ==
    /\ pc = "idle"
    /\ Len(history) < MaxHist
    /\ goal' = g
    /\ op' = "update_model"
    /\ IF FirstContact(x_new, context)
       THEN /\ context' = InitialContext(context, g)
            /\ err' = "none"
            /\ pc' = "updated"
            /\ UNCHANGED <<history, prev_context, gp, proposed_under>>
       ELSE IF x_new = None \/ context = None
       THEN \* torch.cat over None raises TypeError; next() is abandoned
            /\ err' = "TypeError"
            /\ pc' = "idle"
            /\ UNCHANGED <<context, history, prev_context, gp, proposed_under>>
       ELSE /\ history' = AddObservation(history, x_new, context, g)
            /\ prev_context' = ShiftContext(context, g).prev
            /\ context' = ShiftContext(context, g).cur
            /\ gp' = Refit(gp, get_xy(history'))
            /\ proposed_under' = Append(proposed_under, x_new_context)
            /\ err' = "none"
            /\ pc' = "updated"
    /\ acq_func_ff' = NoAcqf
    /\ x_cand' = None
    /\ result' = NoResult
    /\ UNCHANGED <<config, x_new, x_new_context>>

UpdateModel == \E g \in Goals : _update_model(g)

\* ---- _initialize_acqf / _optimize_acqf / _check_data_vicinity ---------------
Range(f) == {f[i] : i \in DOMAIN f}

\* columns are 0-based tensor indices, as in the code
ContextColumnsNoOffset(idim, cdim) == [i \in 1 .. cdim |-> i - 1]

ContextColumns(idim, cdim) == [i \in 1 .. cdim |-> (i - 1) + idim]

_initialize_acqf(idim, cdim, jdim, ctx) ==
    [built |-> TRUE, d |-> jdim, columns |-> ContextColumns(idim, cdim),
     values |-> ctx]

\* number of free (not fixed) dimensions the wrapped function exposes
FreeDim(acq) == acq.d - Cardinality(Range(acq.columns))

ColPos(cols, j) == CHOOSE k \in DOMAIN cols : cols[k] = j

FreeRank(cols, j) == Cardinality({i \in 0 .. j : i \notin Range(cols)})

\* the joint point at which the wrapped function evaluates a free point x
ConstructXFull(acq, x) ==
    [j1 \in 1 .. acq.d |->
        IF (j1 - 1) \in Range(acq.columns)
        THEN acq.values[ColPos(acq.columns, j1 - 1)]
        ELSE x[FreeRank(acq.columns, j1 - 1)]]

\* candidates the inner optimizer can return for a wrapped function
_optimize_acqf(acq) == Points(FreeDim(acq))

\* closeness criterion of the base optimizer on the grid: a coincident point
BaseCheckDataVicinity(xc1, x2) == \E i \in DOMAIN x2 : x2[i] = xc1

_check_data_vicinity(x1, ctx, x2) == BaseCheckDataVicinity(x1 \o ctx, x2)

_get_next_x ==
    /\ pc = "updated"
    /\ IF Len(history) < n_init
       THEN /\ x_new' \in Points(input_dim)
            /\ acq_func_ff' = NoAcqf
            /\ x_cand' = None
       ELSE LET acq == _initialize_acqf(input_dim, context_dim, joint_dim, context)
            IN  /\ acq_func_ff' = acq
                /\ \E x_opt \in _optimize_acqf(acq) :
                      /\ x_cand' = ConstructXFull(acq, x_opt)
                      /\ IF _check_data_vicinity(x_opt, context, get_xy(history)[1])
                         THEN x_new' \in Points(input_dim)
                         ELSE x_new' = x_opt
    /\ x_new_context' = context
    /\ pc' = "idle"
    /\ op' = "get_next_x"
    /\ err' = "none"
    /\ result' = NoResult
    /\ UNCHANGED <<config, context, prev_context, history, gp, goal,
                   proposed_under>>

\* ---- get_optimal_parameters / _optimize_posterior_mean ---------------------
Args ==
    {NoArg} \cup
    {[kind |-> k, val |-> v] : k \in {"tensor", "list"}, v \in Points(context_dim)}

\* Python truth value of the argument in `context or self.prev_context`
Truthy(arg) ==
    IF arg.kind = "none" THEN "false"
    ELSE IF arg.kind = "list" THEN (IF Len(arg.val) = 0 THEN "false" ELSE "true")
    ELSE IF Len(arg.val) = 1 THEN (IF arg.val[1] = 0 THEN "false" ELSE "true")
    ELSE "error"

SignCorrectNever(f, mx) == f

SignCorrect(f, mx) == IF mx THEN f ELSE (-1) * f

_optimize_posterior_mean(arg) ==
    /\ pc = "idle"
    /\ op' = "get_optimal_parameters"
    /\ IF Truthy(arg) = "error"
       THEN \* bool() of a tensor with more than one element raises
            /\ err' = "RuntimeError"
            /\ result' = [NoResult EXCEPT !.arg = arg]
       ELSE LET ctx == IF Truthy(arg) = "true" THEN arg.val ELSE prev_context
            IN  IF ctx = None \/ ~gp.exists
                THEN \* torch.tensor(None) / a posterior of no model raises
                     /\ err' = "RuntimeError"
                     /\ result' = [NoResult EXCEPT !.arg = arg]
                ELSE /\ err' = "none"
                     /\ \E x_raw \in Points(input_dim), f_raw \in RawVals :
                           result' = [returned |-> TRUE, arg |-> arg,
                                      d |-> joint_dim,
                                      columns |-> ContextColumns(input_dim, context_dim),
                                      values |-> ctx,
                                      x_raw |-> x_raw, f_raw |-> f_raw,
                                      x_opt |-> x_raw,
                                      f_opt |-> SignCorrect(f_raw, maximize)]
    /\ pc' = "answered"
    /\ UNCHANGED <<config, x_new, context, prev_context, history, gp,
                   acq_func_ff, x_cand, goal, x_new_context, proposed_under>>

get_optimal_parameters == \E arg \in Args : _optimize_posterior_mean(arg)

\* the caller takes the answer (or the exception) of the query
Return ==
    /\ pc = "answered"
    /\ pc' = "idle"
    /\ op' = "return"
    /\ err' = "none"
    /\ result' = NoResult
    /\ UNCHANGED <<config, x_new, context, prev_context, history, gp,
                   acq_func_ff, x_cand, goal, x_new_context, proposed_under>>

Next ==
    \/ UpdateModel
    \/ _get_next_x
    \/ get_optimal_parameters
    \/ Return

Spec == Init /\ [][Next]_vars

\* ---- properties -------------------------------------------------------------
\* a step that is one call of _update_model, with goal' the goal it was given
UpdateStep == pc = "idle" /\ op' = "update_model"

\* the last context_dim components of a joint vector
ContextSlice(v) == SubSeq(v, Len(v) - context_dim + 1, Len(v))

Last(s) == s[Len(s)]

\* C1: a call of _update_model with no pending decision point (x_new is None)
\* only records the context: context becomes goal.c_new, the history (empty on
\* the first call of a run), prev_context and the surrogate model are unchanged.
C1_FirstContactRecordsContextOnly ==
    [][(UpdateStep /\ x_new = None) =>
          /\ context' = goal'.c_new
          /\ history' = history
          /\ Len(history') = 0
          /\ prev_context' = prev_context
          /\ gp' = gp
          /\ err' = "none"]_vars

C1_Witness ==
    /\ op = "update_model"
    /\ x_new = None
    /\ context # None
    /\ context = goal.c_new
    /\ history = <<>>
    /\ prev_context = None
    /\ ~gp.exists

\* C2: a call of _update_model with a pending decision point x1 under current
\* context c1 and goal (y, c2) appends exactly one history entry, the joint
\* vector concat(x1, c1) with outcome y, and leaves the earlier entries alone.
C2_AppendsPointWithItsContext ==
    [][(UpdateStep /\ x_new # None /\ context # None) =>
          /\ Len(history') = Len(history) + 1
          /\ Last(history') = [x |-> x_new \o context, y |-> goal'.y_new]
          /\ SubSeq(history', 1, Len(history)) = history]_vars

C2_Witness ==
    /\ op = "update_model"
    /\ Len(history) = 2
    /\ prev_context # context
    /\ Last(history) = [x |-> x_new \o prev_context, y |-> goal.y_new]
    /\ Last(history).x # x_new \o goal.c_new

\* C3: a call of _update_model that carries a completed observation shifts the
\* context in order: prev_context takes the pre-call context, then context
\* becomes goal.c_new.
C3_ContextShiftOrder ==
    [][(UpdateStep /\ x_new # None) =>
          /\ prev_context' = context
          /\ context' = goal'.c_new]_vars

C3_Witness ==
    /\ op = "update_model"
    /\ Len(history) = 2
    /\ prev_context # None
    /\ prev_context # context
    /\ context = goal.c_new

\* C4: every stored observation's context slice (its last context_dim
\* components) is the context that was current when its decision variables
\* were proposed.
C4_StoredContextIsProposalContext ==
    /\ Len(proposed_under) = Len(history)
    /\ \A i \in 1 .. Len(history) :
          ContextSlice(history[i].x) = proposed_under[i]

C4_Witness ==
    /\ Len(history) = 2
    /\ proposed_under[1] # proposed_under[2]
    /\ context # proposed_under[2]
    /\ ContextSlice(history[2].x) = proposed_under[2]

\* C5: whenever the posterior-mean query returns, the context dimensions were
\* fixed to prev_context if no context argument was passed and to the passed
\* context c otherwise (for every valid c, an all-zero context included).
C5_ContextIffNoArgument ==
    (pc = "answered" /\ result.returned) =>
        result.values = IF result.arg.kind = "none"
                        THEN prev_context
                        ELSE result.arg.val

\* C6: a non-finite outcome received while a decision point is pending raises
\* DataError and leaves history, context, prev_context and the model as they
\* were.
C6_NonFiniteOutcomeRejected ==
    [][(UpdateStep /\ x_new # None /\ ~goal'.y_new.finite) =>
          /\ err' = "DataError"
          /\ history' = history
          /\ context' = context
          /\ prev_context' = prev_context
          /\ gp' = gp]_vars

\* C7: joint_dim is input_dim + context_dim and joint_bounds is a 2 x joint_dim
\* tensor whose first input_dim columns are the decision bounds and whose last
\* context_dim columns are the context bounds; no step changes joint_dim,
\* joint_bounds, input_dim or context_dim.
JointShape ==
    /\ joint_dim = input_dim + context_dim
    /\ Len(joint_bounds) = 2
    /\ \A r \in 1 .. 2 :
          /\ Len(joint_bounds[r]) = input_dim + context_dim
          /\ SubSeq(joint_bounds[r], 1, input_dim) = bounds[r]
          /\ SubSeq(joint_bounds[r], input_dim + 1, input_dim + context_dim)
                = context_bounds[r]

C7_JointShapeFixed ==
    /\ []JointShape
    /\ [][UNCHANGED <<joint_dim, joint_bounds, input_dim, context_dim>>]_vars

C7_Witness ==
    /\ pc = "answered"
    /\ Len(history) = 2
    /\ input_dim = 1
    /\ context_dim = 2
    /\ joint_dim = 3
    /\ joint_bounds = <<bounds[1] \o context_bounds[1], bounds[2] \o context_bounds[2]>>
    /\ bounds[2] # SubSeq(context_bounds[2], 1, 1)

\* C8: the value the posterior-mean query returns is the raw optimizer value
\* when maximize is TRUE and -1 times it when maximize is FALSE; the returned
\* point is the optimizer's point.
C8_SignCorrected ==
    result.returned =>
        /\ result.f_opt = IF maximize THEN result.f_raw ELSE (-1) * result.f_raw
        /\ result.x_opt = result.x_raw

C8_Witness ==
    /\ result.returned
    /\ ~maximize
    /\ result.f_raw = 1
    /\ result.f_opt = -1

\* C9: an acquisition function built by _initialize_acqf pins exactly the
\* columns input_dim .. joint_dim - 1 to the components of the current context,
\* so the proposed point has input_dim free components and the context slice
\* of the joint candidate is the current context.
C9_AcqfPinsCurrentContext ==
    acq_func_ff.built =>
        /\ acq_func_ff.columns = [i \in 1 .. context_dim |-> input_dim + i - 1]
        /\ Range(acq_func_ff.columns) = input_dim .. (joint_dim - 1)
        /\ acq_func_ff.values = context
        /\ FreeDim(acq_func_ff) = input_dim
        /\ Len(x_new) = input_dim
        /\ Len(x_cand) = joint_dim
        /\ ContextSlice(x_cand) = context

C9_Witness ==
    /\ acq_func_ff.built
    /\ input_dim = 2
    /\ context_dim = 2
    /\ prev_context # context
    /\ acq_func_ff.values = context
    /\ ContextSlice(x_cand) = context
    /\ ContextSlice(x_cand) # SubSeq(x_cand, 1, 2)

\* C10: a surrogate model exists exactly when an observation has been stored,
\* and its training set is the complete observation history.
C10_ModelTrainedOnFullHistory ==
    /\ gp.exists <=> Len(history) > 0
    /\ gp.exists =>
          /\ gp.train_X = get_xy(history)[1]
          /\ gp.train_Y = get_xy(history)[2]

C10_Witness ==
    /\ gp.exists
    /\ Len(history) = 2
    /\ Len(gp.train_X) = 2
    /\ gp.train_X[2] = history[2].x
====
